---- MODULE Spec2Model ----
(***************************************************************************)
(* Follow-service: the relationship service (FollowService, its            *)
(* controller and error handler) running as several concurrent request     *)
(* handlers over one shared relational store (tables "User" and "Follow"). *)
(*                                                                         *)
(* Every store call of the service is one atomic step; the awaits          *)
(* between them are the interleaving points.                               *)
(***************************************************************************)
EXTENDS Integers, Sequences, FiniteSets, TLC

\* ---------------------------------------------------------------- bounds
NumProcs == 2
MaxCalls == 2
MaxDeletes == 2
MaxSeqCalls == 4
MaxClock == 1
MaxListCalls == 2
MaxFaultCalls == 2
MaxEdgeCalls == 3
MaxScenarioCalls == 4

Procs == 1..NumProcs

\* ------------------------------------------------------------ identifiers
\* User identifiers (UUIDs) that requests carry; all are seeded users at first.
UserIds == {"alice", "bob"}

Pairs == [followerId : UserIds, followeeId : UserIds]

\* ------------------------------------------------------- error vocabulary
ErrorCodes ==
  [USER_NOT_FOUND   |-> "USER_NOT_FOUND",
   SELF_FOLLOW      |-> "SELF_FOLLOW",
   DUPLICATE_FOLLOW |-> "DUPLICATE_FOLLOW",
   FOLLOW_NOT_FOUND |-> "FOLLOW_NOT_FOUND",
   INVALID_INPUT    |-> "INVALID_INPUT",
   INTERNAL_ERROR   |-> "INTERNAL_ERROR"]

\* Messages of the store client's errors, as the words of the message text.
UniqueMsg     == <<"Unique", "constraint", "failed", "on", "the", "fields">>
ForeignKeyMsg == <<"Foreign", "key", "constraint", "failed", "on", "the", "field">>
CheckMsg      == <<"new", "row", "violates", "check", "constraint">>
RecordGoneMsg == <<"Record", "to", "delete", "does", "not", "exist">>
NoMsg         == <<>>

\* The text the service looks for in a store error (error.message.includes).
UniquePattern == <<"Unique", "constraint", "failed">>

\* String.prototype.includes on word sequences: pat occurs contiguously in msg.
Includes(msg, pat) ==
  \E i \in 1..(Len(msg) - Len(pat) + 1) :
      SubSeq(msg, i, i + Len(pat) - 1) = pat

\* A thrown value: an AppError (createError) or a raw error of the store client.
createError(statusCode, message, code) ==
  [isAppError |-> TRUE, statusCode |-> statusCode, message |-> message,
   code |-> code, raw |-> NoMsg]

StoreError(msg) ==
  [isAppError |-> FALSE, statusCode |-> 0, message |-> "", code |-> "",
   raw |-> msg]

\* ---------------------------------------------------------------- responses
NoResponse ==
  [status |-> 0, success |-> FALSE, message |-> "", code |-> "",
   id |-> 0, isFollowing |-> FALSE]

\* res.status(s).json({success: true, ...})
Success(status, message, id, flag) ==
  [status |-> status, success |-> TRUE, message |-> message, code |-> "",
   id |-> id, isFollowing |-> flag]

errorHandler(err) ==
  IF err.isAppError
    THEN [status |-> err.statusCode, success |-> FALSE,
          message |-> err.message, code |-> err.code,
          id |-> 0, isFollowing |-> FALSE]
    ELSE [status |-> 500, success |-> FALSE,
          message |-> "Internal server error",
          code |-> ErrorCodes.INTERNAL_ERROR,
          id |-> 0, isFollowing |-> FALSE]

\* ------------------------------------------------------------------- store
\* The edge of a pair, as a set (empty or a singleton under the unique index).
EdgesOf(fs, a, b) == {f \in fs : f.followerId = a /\ f.followeeId = b}

\* FindFollow matching the pair in either direction.
FindFollowEitherDirection(fs, a, b) ==
  IF EdgesOf(fs, a, b) \cup EdgesOf(fs, b, a) = {} THEN 0
  ELSE (CHOOSE f \in EdgesOf(fs, a, b) \cup EdgesOf(fs, b, a) : TRUE).id

\* prisma.follow.findUnique({where: {followerId_followeeId}}): id of the edge, 0 for null.
FindFollow(fs, a, b) ==
  IF EdgesOf(fs, a, b) = {} THEN 0
  ELSE (CHOOSE f \in EdgesOf(fs, a, b) : TRUE).id

\* StoreCreate without the unique index on (followerId, followeeId).
StoreCreateNoUnique(fs, us, newId, a, b) ==
  IF a = b
    THEN [ok |-> FALSE, error |-> CheckMsg, follows |-> fs, id |-> 0]
  ELSE IF a \notin us \/ b \notin us
    THEN [ok |-> FALSE, error |-> ForeignKeyMsg, follows |-> fs, id |-> 0]
  ELSE [ok |-> TRUE, error |-> NoMsg, id |-> newId,
        follows |-> fs \cup {[id |-> newId, followerId |-> a, followeeId |-> b]}]

\* INSERT INTO "Follow": the table's constraints decide, then the row is stored
\* under a fresh identifier.
StoreCreate(fs, us, newId, a, b) ==
  IF a = b
    THEN [ok |-> FALSE, error |-> CheckMsg, follows |-> fs, id |-> 0]
  ELSE IF EdgesOf(fs, a, b) # {}
    THEN [ok |-> FALSE, error |-> UniqueMsg, follows |-> fs, id |-> 0]
  ELSE IF a \notin us \/ b \notin us
    THEN [ok |-> FALSE, error |-> ForeignKeyMsg, follows |-> fs, id |-> 0]
  ELSE [ok |-> TRUE, error |-> NoMsg, id |-> newId,
        follows |-> fs \cup {[id |-> newId, followerId |-> a, followeeId |-> b]}]

\* StoreDelete reporting success while the row stays.
StoreDeleteKeepsRow(fs, id) ==
  IF \E f \in fs : f.id = id
    THEN [ok |-> TRUE, error |-> NoMsg, follows |-> fs]
    ELSE [ok |-> FALSE, error |-> RecordGoneMsg, follows |-> fs]

\* prisma.follow.delete({where: {id}}): throws when no row has the id.
StoreDelete(fs, id) ==
  IF \E f \in fs : f.id = id
    THEN [ok |-> TRUE, error |-> NoMsg, follows |-> {f \in fs : f.id # id}]
    ELSE [ok |-> FALSE, error |-> RecordGoneMsg, follows |-> fs]

\* The createdAt column once the row id is stored at time t (DEFAULT now()).
Stamp(ca, id, t) == [i \in (DOMAIN ca) \cup {id} |-> IF i = id THEN t ELSE ca[i]]

\* The createdAt column of the rows fs that remain.
Kept(ca, fs) == [i \in {f.id : f \in fs} |-> ca[i]]

\* prisma.follow.count({where: {followeeId: userId}})
FollowerCount(fs, u) == Cardinality({f \in fs : f.followeeId = u})

\* prisma.follow.count({where: {followerId: userId}})
FollowingCount(fs, u) == Cardinality({f \in fs : f.followerId = u})

\* CascadeDelete with the cascade on followerId only.
CascadeDeleteFollowerOnly(fs, u) == {f \in fs : f.followerId # u}

\* DELETE FROM "User": ON DELETE CASCADE on both edge endpoints.
CascadeDelete(fs, u) == {f \in fs : f.followerId # u /\ f.followeeId # u}

\* The paginations the concurrent readers ask for: the default, and the second
\* page of one.
ReadPages == {[limit |-> "20", offset |-> "0"], [limit |-> "1", offset |-> "1"]}

\* Pagination defaults and the largest limit of PaginationSchema.
DefaultLimit == 20
DefaultOffset == 0
MaxLimit == 100
DefaultPagination == [limit |-> DefaultLimit, offset |-> DefaultOffset]

\* A field the request does not carry.
Undefined == "undefined"

NoQuery == [limit |-> Undefined, offset |-> Undefined]

\* The query-string values that Number() turns into an integer, and that
\* integer; Number() of the other values is NaN or has a fraction.
IntegerStrings == {"-1", "0", "1", "2", "20", "100", "101"}

Number(str) ==
  CASE str = "-1" -> 0 - 1
    [] str = "0" -> 0
    [] str = "1" -> 1
    [] str = "2" -> 2
    [] str = "20" -> 20
    [] str = "100" -> 100
    [] str = "101" -> 101

\* z.coerce.number().int().positive().max(100).default(20)
LimitSchema(str) ==
  IF str = Undefined THEN [ok |-> TRUE, data |-> DefaultLimit]
  ELSE IF str \in IntegerStrings /\ Number(str) > 0 /\ Number(str) <= MaxLimit
      THEN [ok |-> TRUE, data |-> Number(str)]
      ELSE [ok |-> FALSE, data |-> 0]

\* z.coerce.number().int().nonnegative().default(0)
OffsetSchema(str) ==
  IF str = Undefined THEN [ok |-> TRUE, data |-> DefaultOffset]
  ELSE IF str \in IntegerStrings /\ Number(str) >= 0
      THEN [ok |-> TRUE, data |-> Number(str)]
      ELSE [ok |-> FALSE, data |-> 0]

\* PaginationSchema.parse(req.query): ok, or a ZodError is thrown.
PaginationSchema(q) ==
  [ok |-> LimitSchema(q.limit).ok /\ OffsetSchema(q.offset).ok,
   data |-> [limit |-> LimitSchema(q.limit).data,
             offset |-> OffsetSchema(q.offset).data]]

\* The well-formed UUIDs: the identifiers of alice and bob, and one of no user.
Uuids == UserIds \cup {"nobody"}

\* z.string().uuid(...)
IsUuid(str) == str \in Uuids

\* FollowRequestSchema.parse(req.body): ok, or a ZodError is thrown.
FollowRequestSchema(body) ==
  [ok |-> IsUuid(body.followerId) /\ IsUuid(body.followeeId), data |-> body]

\* The error zod's parse throws; it is not an AppError.
ZodError ==
  [isAppError |-> FALSE, statusCode |-> 0, message |-> "", code |-> "",
   raw |-> <<"ZodError">>]

\* A query of Promise.all that has not returned yet.
Pending == -1
PendingItems == <<"pending">>

\* No data field in the response.
NoData == [total |-> -1, items |-> <<>>, count |-> -1]

\* The (follower, followee) pairs of the rows of "Follow".
PairsIn(fs) == {[followerId |-> f.followerId, followeeId |-> f.followeeId] : f \in fs}

\* ------------------------------------------------------------------- state
VARIABLES
  users,           \* rows of "User" (their identifiers)
  follows,         \* rows of "Follow": [id, followerId, followeeId]
  nextId,          \* next identifier the store assigns to an edge
  pc,              \* position of each request handler
  op,              \* operation of the handler's current or last request
  req,             \* its request {followerId, followeeId}
  followerExists,  \* result of the follower lookup: "pending", "found", "null"
  followeeExists,  \* result of the followee lookup
  follow,          \* unfollowUser: id of the edge found by the lookup
  response,        \* response sent for the request (NoResponse while running)
  reads,           \* store reads issued by the request
  writes,          \* store writes issued by the request
  edgeAtStart,     \* history: id of the pair's edge when the request began, 0 if none
  rivals,          \* history: other followUser calls on the pair overlapping this one
  disturbed,       \* history: an endpoint or the pair's edge was removed since the request began
  after,           \* history: the requests that had been answered when this one began
  calls,           \* requests begun so far
  createdAt,       \* column createdAt of "Follow": edge identifier -> time of the insert
  now,             \* the store's clock (NOW())
  query,           \* listings: req.query as received, {limit, offset} as strings
  pagination,      \* listings: the validated {limit, offset} of the request
  total,           \* listings: result of the count query, Pending until it returns
  items,           \* listings: result of the findMany query, PendingItems until it returns
  result,          \* the data field of a listing or count response
  config,          \* the scenario: request budget, handlers in use, logging on or off
  log,             \* history: the answered requests, in the order their handlers took the next one
  before,          \* history: the (follower, followee) pairs in the store when the request began
  failure          \* history: message of the store error thrown at the request by an unavailable store, NoMsg if none

vars == <<users, follows, nextId, pc, op, req, followerExists, followeeExists,
          follow, response, reads, writes, edgeAtStart, rivals, disturbed,
          after, calls, createdAt, now, query, pagination, total, items, result,
          config, log, before, failure>>

storeVars == <<users, follows, nextId, createdAt, now>>
\* What a step of a running followUser, unfollowUser or a user deletion leaves alone.
callVars == <<calls, query, pagination, total, items, result, config, log, before, failure>>
\* What the step in which the store throws leaves alone of these.
throwVars == <<calls, query, pagination, total, items, result, config, log, before>>
localVars == <<followerExists, followeeExists, follow>>
histVars  == <<edgeAtStart, rivals, disturbed, after>>

\* The table "User" holds the known users; "Follow" is empty.
InitStore ==
  /\ users = UserIds
  /\ follows = {}
  /\ nextId = 1
  /\ createdAt = <<>>
  /\ now = 0

\* No request has been taken yet.
InitHandlers ==
  /\ pc = [p \in Procs |-> "idle"]
  /\ op = [p \in Procs |-> "none"]
  /\ req = [p \in Procs |-> [followerId |-> "alice", followeeId |-> "alice"]]
  /\ followerExists = [p \in Procs |-> "pending"]
  /\ followeeExists = [p \in Procs |-> "pending"]
  /\ follow = [p \in Procs |-> 0]
  /\ response = [p \in Procs |-> NoResponse]
  /\ reads = [p \in Procs |-> 0]
  /\ writes = [p \in Procs |-> 0]
  /\ edgeAtStart = [p \in Procs |-> 0]
  /\ rivals = [p \in Procs |-> 0]
  /\ disturbed = [p \in Procs |-> FALSE]
  /\ after = [p \in Procs |-> {}]
  /\ calls = 0
  /\ query = [p \in Procs |-> NoQuery]
  /\ pagination = [p \in Procs |-> DefaultPagination]
  /\ total = [p \in Procs |-> Pending]
  /\ items = [p \in Procs |-> PendingItems]
  /\ result = [p \in Procs |-> NoData]
  /\ log = <<>>
  /\ before = [p \in Procs |-> {}]
  /\ failure = [p \in Procs |-> NoMsg]

\* Concurrent clients: every handler may be serving a request.
Init ==
  /\ InitStore
  /\ InitHandlers
  /\ config = [budget |-> MaxCalls, handlers |-> Procs, logging |-> FALSE]

\* One client that sends its next request when the previous one is answered,
\* about alice and bob following each other; bob may have been deleted before.
InitSeq ==
  /\ users \in {UserIds, UserIds \ {"bob"}}
  /\ follows = {}
  /\ nextId = 1
  /\ createdAt = <<>>
  /\ now = 0
  /\ InitHandlers
  /\ config = [budget |-> MaxSeqCalls, handlers |-> {1}, logging |-> TRUE]

Running(p)  == pc[p] # "idle"
Finished(p) == pc[p] = "idle" /\ op[p] # "none"

\* A request begins: the handler's locals and history are reset. Handlers are
\* interchangeable; one that has served no request yet is taken in order. msg
\* is the store error thrown at a request that is answered in its first step.
BeginCall(p, o, r, qs, msg) ==
  /\ pc[p] = "idle"
  /\ p \in config.handlers
  /\ \A q \in Procs : q < p => op[q] # "none"
  /\ calls < config.budget
  /\ calls' = calls + 1
  /\ query' = [query EXCEPT ![p] = qs]
  /\ pagination' = [pagination EXCEPT ![p] =
                      IF PaginationSchema(qs).ok THEN PaginationSchema(qs).data
                                                 ELSE DefaultPagination]
  /\ total' = [total EXCEPT ![p] = Pending]
  /\ items' = [items EXCEPT ![p] = PendingItems]
  /\ result' = [result EXCEPT ![p] = NoData]
  /\ config' = config
  /\ log' = IF config.logging /\ Finished(p)
              THEN Append(log, [op |-> op[p], req |-> req[p],
                                response |-> response[p], before |-> before[p]])
              ELSE log
  /\ before' = IF config.logging
                 THEN [before EXCEPT ![p] = PairsIn(follows)]
                 ELSE before
  /\ op' = [op EXCEPT ![p] = o]
  /\ req' = [req EXCEPT ![p] = r]
  /\ reads' = [reads EXCEPT ![p] = 0]
  /\ writes' = [writes EXCEPT ![p] = 0]
  /\ edgeAtStart' = [edgeAtStart EXCEPT ![p] = FindFollow(follows, r.followerId, r.followeeId)]
  /\ disturbed' = [disturbed EXCEPT ![p] = FALSE]
  /\ after' = [q \in Procs |->
                 IF q = p THEN {s \in Procs \ {p} : Finished(s)}
                 ELSE after[q] \ {p}]
  /\ failure' = [failure EXCEPT ![p] = msg]

\* A request begins whose first step meets no failure of the store.
BeginWith(p, o, r, qs) == BeginCall(p, o, r, qs, NoMsg)

\* A request without a query string begins.
Begin(p, o, r) == BeginWith(p, o, r, NoQuery)

\* The request ends with response r; the handler's locals are gone.
Respond(p, r) ==
  /\ pc' = [pc EXCEPT ![p] = "idle"]
  /\ response' = [response EXCEPT ![p] = r]
  /\ followerExists' = [followerExists EXCEPT ![p] = "pending"]
  /\ followeeExists' = [followeeExists EXCEPT ![p] = "pending"]
  /\ follow' = [follow EXCEPT ![p] = 0]

\* ------------------------------------------------------------- followUser
\* Other followUser calls on the same pair that are running now.
RunningFollows(p, r) ==
  {s \in Procs \ {p} : Running(s) /\ op[s] = "follow" /\ req[s] = r}

\* IsSelfFollow never holding: the check is missing.
IsSelfFollowNever(r) == FALSE

\* followerId === followeeId
IsSelfFollow(r) == r.followerId = r.followeeId

\* SelfFollowError as a not-found error.
SelfFollowErrorAsNotFound ==
  createError(404, "Follower user not found", ErrorCodes.USER_NOT_FOUND)

SelfFollowError ==
  createError(400, "Cannot follow yourself", ErrorCodes.SELF_FOLLOW)

\* POST /follows: the self-follow check, then both user lookups are issued.
FollowStart(p, r) ==
  /\ Begin(p, "follow", r)
  /\ IF IsSelfFollow(r)
       THEN /\ Respond(p, errorHandler(SelfFollowError))
            /\ rivals' = [rivals EXCEPT ![p] = 0]
       ELSE /\ pc' = [pc EXCEPT ![p] = "findUsers"]
            /\ response' = [response EXCEPT ![p] = NoResponse]
            /\ rivals' =
                 [q \in Procs |->
                    IF q = p THEN Cardinality(RunningFollows(p, r))
                    ELSE IF q \in RunningFollows(p, r) THEN rivals[q] + 1
                    ELSE rivals[q]]
            /\ UNCHANGED localVars
  /\ UNCHANGED storeVars

\* prisma.user.findUnique({where: {id: followerId}})
FollowFindFollower(p) ==
  /\ pc[p] = "findUsers"
  /\ followerExists[p] = "pending"
  /\ followerExists' = [followerExists EXCEPT ![p] =
        IF req[p].followerId \in users THEN "found" ELSE "null"]
  /\ reads' = [reads EXCEPT ![p] = @ + 1]
  /\ UNCHANGED <<storeVars, pc, op, req, followeeExists, follow, response,
                 writes, histVars, callVars>>

\* prisma.user.findUnique({where: {id: followeeId}})
FollowFindFollowee(p) ==
  /\ pc[p] = "findUsers"
  /\ followeeExists[p] = "pending"
  /\ followeeExists' = [followeeExists EXCEPT ![p] =
        IF req[p].followeeId \in users THEN "found" ELSE "null"]
  /\ reads' = [reads EXCEPT ![p] = @ + 1]
  /\ UNCHANGED <<storeVars, pc, op, req, followerExists, follow, response,
                 writes, histVars, callVars>>

\* UserNotFoundError with the followee checked first.
UserNotFoundErrorFolloweeFirst(follower, followee) ==
  IF followee = "null"
    THEN createError(404, "Followee user not found", ErrorCodes.USER_NOT_FOUND)
    ELSE createError(404, "Follower user not found", ErrorCodes.USER_NOT_FOUND)

\* The error thrown when a user lookup returned null.
UserNotFoundError(follower, followee) ==
  IF follower = "null"
    THEN createError(404, "Follower user not found", ErrorCodes.USER_NOT_FOUND)
    ELSE createError(404, "Followee user not found", ErrorCodes.USER_NOT_FOUND)

\* Both lookups have returned and one of them returned null.
FollowUserNotFound(p) ==
  /\ pc[p] = "findUsers"
  /\ followerExists[p] # "pending" /\ followeeExists[p] # "pending"
  /\ followerExists[p] = "null" \/ followeeExists[p] = "null"
  /\ Respond(p, errorHandler(UserNotFoundError(followerExists[p], followeeExists[p])))
  /\ UNCHANGED <<storeVars, op, req, reads, writes, histVars, callVars>>

\* FollowOutcome without the catch clause's classification.
FollowOutcomeRethrow(res) ==
  IF res.ok
    THEN Success(201, "User followed successfully", res.id, FALSE)
  ELSE errorHandler(StoreError(res.error))

\* FollowOutcome accepting a duplicate silently.
FollowOutcomeSwallow(res) ==
  IF res.ok \/ Includes(res.error, UniquePattern)
    THEN Success(201, "User followed successfully", res.id, FALSE)
  ELSE errorHandler(StoreError(res.error))

\* The outcome of followUser once prisma.follow.create has returned or thrown.
FollowOutcome(res) ==
  IF res.ok
    THEN Success(201, "User followed successfully", res.id, FALSE)
  ELSE IF Includes(res.error, UniquePattern)
    THEN errorHandler(createError(409, "Already following this user",
                                  ErrorCodes.DUPLICATE_FOLLOW))
  ELSE errorHandler(StoreError(res.error))

\* CreateData with the endpoints exchanged.
CreateDataReversed(r) == [followerId |-> r.followeeId, followeeId |-> r.followerId]

\* data: {followerId, followeeId}
CreateData(r) == [followerId |-> r.followerId, followeeId |-> r.followeeId]

\* prisma.follow.create({data: {followerId, followeeId}}) and the try/catch around it.
FollowCreate(p) ==
  /\ pc[p] = "findUsers"
  /\ followerExists[p] = "found" /\ followeeExists[p] = "found"
  /\ LET data == CreateData(req[p])
         res == StoreCreate(follows, users, nextId,
                            data.followerId, data.followeeId)
     IN /\ follows' = res.follows
        /\ nextId' = IF res.ok THEN nextId + 1 ELSE nextId
        /\ createdAt' = IF res.ok THEN Stamp(createdAt, res.id, now) ELSE createdAt
        /\ Respond(p, FollowOutcome(res))
  /\ writes' = [writes EXCEPT ![p] = @ + 1]
  /\ UNCHANGED <<users, now, op, req, reads, histVars, callVars>>

\* ----------------------------------------------------------- unfollowUser
\* DELETE /follows: the edge lookup is issued.
UnfollowStart(p, r) ==
  /\ Begin(p, "unfollow", r)
  /\ pc' = [pc EXCEPT ![p] = "findFollow"]
  /\ response' = [response EXCEPT ![p] = NoResponse]
  /\ rivals' = [rivals EXCEPT ![p] = 0]
  /\ UNCHANGED <<storeVars, localVars>>

\* prisma.follow.findUnique({where: {followerId_followeeId}}) and the null check.
UnfollowFind(p) ==
  /\ pc[p] = "findFollow"
  /\ reads' = [reads EXCEPT ![p] = @ + 1]
  /\ LET found == FindFollow(follows, req[p].followerId, req[p].followeeId)
     IN IF found = 0
          THEN Respond(p, errorHandler(
                 createError(404, "Follow relationship not found",
                             ErrorCodes.FOLLOW_NOT_FOUND)))
          ELSE /\ follow' = [follow EXCEPT ![p] = found]
               /\ pc' = [pc EXCEPT ![p] = "delete"]
               /\ UNCHANGED <<response, followerExists, followeeExists>>
  /\ UNCHANGED <<storeVars, op, req, writes, histVars, callVars>>

\* Requests whose pair loses its edge, or an endpoint, in this step.
Disturb(gone, goneUsers) ==
  [q \in Procs |->
     disturbed[q]
       \/ req[q].followerId \in goneUsers
       \/ req[q].followeeId \in goneUsers
       \/ \E f \in gone : f.followerId = req[q].followerId
                          /\ f.followeeId = req[q].followeeId]

\* UnfollowDelete deleting by (followerId, followeeId) instead of by the
\* identifier the lookup returned.
UnfollowDeleteByPair(p) ==
  /\ pc[p] = "delete"
  /\ LET gone == EdgesOf(follows, req[p].followerId, req[p].followeeId)
     IN /\ follows' = follows \ gone
        /\ createdAt' = Kept(createdAt, follows \ gone)
        /\ disturbed' = Disturb(gone, {})
        /\ Respond(p, IF gone # {}
                        THEN Success(200, "User unfollowed successfully", 0, FALSE)
                        ELSE errorHandler(StoreError(RecordGoneMsg)))
  /\ writes' = [writes EXCEPT ![p] = @ + 1]
  /\ UNCHANGED <<users, nextId, now, op, req, reads, edgeAtStart, rivals, after,
                 callVars>>

\* prisma.follow.delete({where: {id: follow.id}})
UnfollowDelete(p) ==
  /\ pc[p] = "delete"
  /\ LET res == StoreDelete(follows, follow[p])
     IN /\ follows' = res.follows
        /\ createdAt' = Kept(createdAt, res.follows)
        /\ disturbed' = Disturb(follows \ res.follows, {})
        /\ Respond(p, IF res.ok
                        THEN Success(200, "User unfollowed successfully", 0, FALSE)
                        ELSE errorHandler(StoreError(res.error)))
  /\ writes' = [writes EXCEPT ![p] = @ + 1]
  /\ UNCHANGED <<users, nextId, now, op, req, reads, edgeAtStart, rivals, after,
                 callVars>>

\* ------------------------------------------------------------ isFollowing
\* GET /follows/check: one lookup by (followerId, followeeId).
IsFollowing(p, r) ==
  /\ Begin(p, "isFollowing", r)
  /\ Respond(p, Success(200, "", 0,
                        FindFollow(follows, r.followerId, r.followeeId) # 0))
  /\ rivals' = [rivals EXCEPT ![p] = 0]
  /\ UNCHANGED storeVars

\* ----------------------------------------------------- external operation
\* A user row is deleted out of band; the store cascades to its edges.
DeleteUser(u) ==
  /\ u \in users
  /\ Cardinality(UserIds \ users) < MaxDeletes
  /\ users' = users \ {u}
  /\ follows' = CascadeDelete(follows, u)
  /\ createdAt' = Kept(createdAt, CascadeDelete(follows, u))
  /\ disturbed' = Disturb({}, {u})
  /\ UNCHANGED <<nextId, now, pc, op, req, localVars, response, reads, writes,
                 edgeAtStart, rivals, after, callVars>>

\* ------------------------------------------- getFollowers, getFollowing
ListOps == {"getFollowers", "getFollowing"}

CountOps == {"getFollowerCount", "getFollowingCount"}

\* A request about one user is kept as the pair (userId, userId).
Self(u) == [followerId |-> u, followeeId |-> u]

\* Where with the two columns exchanged.
WhereReversed(fs, o, u) ==
  IF o \in {"getFollowers", "getFollowerCount"}
    THEN {f \in fs : f.followerId = u}
    ELSE {f \in fs : f.followeeId = u}

\* where: {followeeId: userId} of getFollowers and getFollowerCount,
\* where: {followerId: userId} of getFollowing and getFollowingCount.
Where(fs, o, u) ==
  IF o \in {"getFollowers", "getFollowerCount"}
    THEN {f \in fs : f.followeeId = u}
    ELSE {f \in fs : f.followerId = u}

\* orderBy: {createdAt: 'desc'}: every order of the rows in which no row comes
\* before a more recent one; rows of equal createdAt come in any order.
OrderByCreatedAtDesc(rows, ca) ==
  {s \in [1..Cardinality(rows) -> rows] :
     /\ \A i, j \in DOMAIN s : i # j => s[i] # s[j]
     /\ \A i, j \in DOMAIN s : i < j => ca[s[i].id] >= ca[s[j].id]}

\* SkipTake that skips nothing.
SkipTakeFromStart(s, pg) ==
  [i \in 1..(IF Len(s) < pg.limit THEN Len(s) ELSE pg.limit) |-> s[i]]

\* skip: pagination.offset, take: pagination.limit
SkipTake(s, pg) ==
  LET rest == IF Len(s) > pg.offset THEN Len(s) - pg.offset ELSE 0
      n == IF rest < pg.limit THEN rest ELSE pg.limit
  IN [i \in 1..n |-> s[pg.offset + i]]

\* followers.map((f) => f.follower), following.map((f) => f.followee)
Project(s, o) ==
  [i \in DOMAIN s |-> IF o = "getFollowers" THEN s[i].followerId ELSE s[i].followeeId]

\* The results prisma.follow.findMany can return for operation o on user u.
FindMany(fs, ca, o, u, pg) ==
  {Project(SkipTake(s, pg), o) : s \in OrderByCreatedAtDesc(Where(fs, o, u), ca)}

\* GET /users/:userId/followers, GET /users/:userId/following:
\* PaginationSchema.parse(req.query), then the service's user lookup is issued;
\* a ZodError goes to errorHandler.
ListStart(p, o, u, q) ==
  /\ o \in ListOps
  /\ BeginWith(p, o, Self(u), q)
  /\ rivals' = [rivals EXCEPT ![p] = 0]
  /\ IF PaginationSchema(q).ok
       THEN /\ pc' = [pc EXCEPT ![p] = "findUser"]
            /\ response' = [response EXCEPT ![p] = NoResponse]
            /\ UNCHANGED localVars
       ELSE Respond(p, errorHandler(ZodError))
  /\ UNCHANGED storeVars

\* GET /users/:userId/followers/count, .../following/count.
CountStart(p, o, u) ==
  /\ o \in CountOps
  /\ Begin(p, o, Self(u))
  /\ pc' = [pc EXCEPT ![p] = "findUser"]
  /\ response' = [response EXCEPT ![p] = NoResponse]
  /\ rivals' = [rivals EXCEPT ![p] = 0]
  /\ UNCHANGED <<storeVars, localVars>>

\* ReadUserNotFoundError with the code of a missing edge.
ReadUserNotFoundErrorAsFollowNotFound ==
  createError(404, "User not found", ErrorCodes.FOLLOW_NOT_FOUND)

\* What the read operations throw for a user that is not found.
ReadUserNotFoundError == createError(404, "User not found", ErrorCodes.USER_NOT_FOUND)

\* prisma.user.findUnique({where: {id: userId}}) and the null check.
ReadFindUser(p) ==
  /\ pc[p] = "findUser"
  /\ reads' = [reads EXCEPT ![p] = @ + 1]
  /\ IF req[p].followerId \notin users
       THEN Respond(p, errorHandler(ReadUserNotFoundError))
       ELSE /\ pc' = [pc EXCEPT ![p] = IF op[p] \in ListOps THEN "query" ELSE "count"]
            /\ UNCHANGED <<response, localVars>>
  /\ UNCHANGED <<storeVars, op, req, writes, histVars, callVars>>

\* prisma.follow.count of Promise.all returns.
ListCount(p) ==
  /\ pc[p] = "query"
  /\ total[p] = Pending
  /\ total' = [total EXCEPT ![p] = Cardinality(Where(follows, op[p], req[p].followerId))]
  /\ reads' = [reads EXCEPT ![p] = @ + 1]
  /\ UNCHANGED <<storeVars, pc, op, req, localVars, response, writes, histVars,
                 calls, query, pagination, items, result, config, log, before, failure>>

\* prisma.follow.findMany of Promise.all returns.
ListFindMany(p) ==
  /\ pc[p] = "query"
  /\ items[p] = PendingItems
  /\ \E s \in FindMany(follows, createdAt, op[p], req[p].followerId, pagination[p]) :
       items' = [items EXCEPT ![p] = s]
  /\ reads' = [reads EXCEPT ![p] = @ + 1]
  /\ UNCHANGED <<storeVars, pc, op, req, localVars, response, writes, histVars,
                 calls, query, pagination, total, result, config, log, before, failure>>

\* return {total, items}; the controller answers 200 {success: true, data: result}.
ListResult(t, its) == [total |-> t, items |-> its, count |-> -1]

\* Both queries have returned: the listing is answered.
ListReturn(p) ==
  /\ pc[p] = "query"
  /\ total[p] # Pending
  /\ items[p] # PendingItems
  /\ result' = [result EXCEPT ![p] = ListResult(total[p], items[p])]
  /\ total' = [total EXCEPT ![p] = Pending]
  /\ items' = [items EXCEPT ![p] = PendingItems]
  /\ Respond(p, Success(200, "", 0, FALSE))
  /\ UNCHANGED <<storeVars, op, req, reads, writes, histVars, calls, query, pagination,
                 config, log, before, failure>>

\* return prisma.follow.count(...); the controller answers 200 {data: {count}}.
CountQuery(p) ==
  /\ pc[p] = "count"
  /\ result' = [result EXCEPT ![p] =
                  [total |-> -1, items |-> <<>>,
                   count |-> Cardinality(Where(follows, op[p], req[p].followerId))]]
  /\ reads' = [reads EXCEPT ![p] = @ + 1]
  /\ Respond(p, Success(200, "", 0, FALSE))
  /\ UNCHANGED <<storeVars, op, req, writes, histVars, calls, query, pagination, total,
                 items, config, log, before, failure>>

\* ------------------------------------------------ the controllers' rejections
\* POST /follows, DELETE /follows: FollowRequestSchema.parse(req.body) throws a
\* ZodError before the service is called; asyncHandler hands it to errorHandler.
BodyRejected(p, o, body) ==
  /\ o \in {"follow", "unfollow"}
  /\ ~FollowRequestSchema(body).ok
  /\ Begin(p, o, body)
  /\ Respond(p, errorHandler(ZodError))
  /\ rivals' = [rivals EXCEPT ![p] = 0]
  /\ UNCHANGED storeVars

\* res.status(400).json({success: false, message: '... are required'})
MissingParamsResponse ==
  [status |-> 400, success |-> FALSE,
   message |-> "followerId and followeeId query parameters are required",
   code |-> "", id |-> 0, isFollowing |-> FALSE]

\* GET /follows/check: typeof followerId !== 'string' || typeof followeeId !== 'string'
IsFollowingMissingParams(p, qs) ==
  /\ qs.followerId = Undefined \/ qs.followeeId = Undefined
  /\ Begin(p, "isFollowing", qs)
  /\ Respond(p, MissingParamsResponse)
  /\ rivals' = [rivals EXCEPT ![p] = 0]
  /\ UNCHANGED storeVars

\* res.status(404).json({success: false, message: 'Route not found'})
RouteNotFoundResponse ==
  [status |-> 404, success |-> FALSE, message |-> "Route not found",
   code |-> "", id |-> 0, isFollowing |-> FALSE]

\* app.use((req, res) => ...): no route matched the request.
RouteNotFound(p) ==
  /\ Begin(p, "routeNotFound", Self(Undefined))
  /\ Respond(p, RouteNotFoundResponse)
  /\ rivals' = [rivals EXCEPT ![p] = 0]
  /\ UNCHANGED storeVars

\* Time passes in the store.
Tick ==
  /\ now < MaxClock
  /\ now' = now + 1
  /\ UNCHANGED <<users, follows, nextId, createdAt, pc, op, req, localVars,
                 response, reads, writes, histVars, callVars>>

\* ------------------------------------------------------- the store fails
\* Messages of the store client's errors when the store cannot serve a call.
UnreachableMsg == <<"Can't", "reach", "database", "server">>
TimedOutMsg    == <<"Timed", "out", "fetching", "a", "new", "connection">>

FaultMsgs == {UnreachableMsg, TimedOutMsg}

\* err.message of a store error, as one string.
Text(msg) ==
  CASE msg = UnreachableMsg -> "Can't reach database server"
    [] msg = TimedOutMsg -> "Timed out fetching a new connection"
    [] OTHER -> ""

\* asyncHandlerCatch without the catch: the rejection is dropped and the
\* request is never answered.
asyncHandlerNoCatch(p, err) ==
  /\ pc' = [pc EXCEPT ![p] = "unhandled"]
  /\ response' = [response EXCEPT ![p] = NoResponse]
  /\ UNCHANGED localVars

\* Promise.resolve(fn(req, res, next)).catch(next): the rejection of a
\* controller goes to errorHandler, which answers the request.
asyncHandlerCatch(p, err) == Respond(p, errorHandler(err))

\* followUser: a user lookup of Promise.all throws.
FollowFindUsersFails(p, msg) ==
  /\ pc[p] = "findUsers"
  /\ followerExists[p] = "pending" \/ followeeExists[p] = "pending"
  /\ asyncHandlerCatch(p, StoreError(msg))
  /\ reads' = [reads EXCEPT ![p] = @ + 1]
  /\ UNCHANGED <<storeVars, op, req, writes, histVars, throwVars>>
  /\ failure' = [failure EXCEPT ![p] = msg]

\* followUser: prisma.follow.create throws for a reason that is no constraint
\* of the table; the catch clause classifies the error.
FollowCreateFails(p, msg) ==
  /\ pc[p] = "findUsers"
  /\ followerExists[p] = "found" /\ followeeExists[p] = "found"
  /\ Respond(p, FollowOutcome([ok |-> FALSE, error |-> msg,
                               follows |-> follows, id |-> 0]))
  /\ writes' = [writes EXCEPT ![p] = @ + 1]
  /\ UNCHANGED <<storeVars, op, req, reads, histVars, throwVars>>
  /\ failure' = [failure EXCEPT ![p] = msg]

\* unfollowUser: prisma.follow.findUnique throws.
UnfollowFindFails(p, msg) ==
  /\ pc[p] = "findFollow"
  /\ asyncHandlerCatch(p, StoreError(msg))
  /\ reads' = [reads EXCEPT ![p] = @ + 1]
  /\ UNCHANGED <<storeVars, op, req, writes, histVars, throwVars>>
  /\ failure' = [failure EXCEPT ![p] = msg]

\* unfollowUser: prisma.follow.delete throws and no row is deleted.
UnfollowDeleteFails(p, msg) ==
  /\ pc[p] = "delete"
  /\ asyncHandlerCatch(p, StoreError(msg))
  /\ writes' = [writes EXCEPT ![p] = @ + 1]
  /\ UNCHANGED <<storeVars, op, req, reads, histVars, throwVars>>
  /\ failure' = [failure EXCEPT ![p] = msg]

\* isFollowing: prisma.follow.findUnique throws.
IsFollowingFails(p, r, msg) ==
  /\ BeginCall(p, "isFollowing", r, NoQuery, msg)
  /\ asyncHandlerCatch(p, StoreError(msg))
  /\ rivals' = [rivals EXCEPT ![p] = 0]
  /\ UNCHANGED storeVars

\* A listing or a count: the user lookup, the count or the findMany throws.
ReadFails(p, msg) ==
  /\ pc[p] \in {"findUser", "query", "count"}
  /\ asyncHandlerCatch(p, StoreError(msg))
  /\ reads' = [reads EXCEPT ![p] = @ + 1]
  /\ total' = [total EXCEPT ![p] = Pending]
  /\ items' = [items EXCEPT ![p] = PendingItems]
  /\ UNCHANGED <<storeVars, op, req, writes, histVars, calls, query, pagination,
                 result, config, log, before>>
  /\ failure' = [failure EXCEPT ![p] = msg]

\* ------------------------------------------------------------ getAllUsers
\* The usernames in ascending order.
ByUsername == <<"alice", "bob", "carol", "charlie", "diana", "eve">>

\* prisma.user.findMany({orderBy: {username: 'asc'}})
FindManyUsers(us) ==
  LET Known(u) == u \in us IN SelectSeq(ByUsername, Known)

\* GET /users: the query is issued.
GetAllUsersStart(p) ==
  /\ Begin(p, "getAllUsers", Self(Undefined))
  /\ pc' = [pc EXCEPT ![p] = "findManyUsers"]
  /\ response' = [response EXCEPT ![p] = NoResponse]
  /\ rivals' = [rivals EXCEPT ![p] = 0]
  /\ UNCHANGED <<storeVars, localVars>>

\* The query returns; the controller answers 200 {success: true, data: users}.
GetAllUsersReturn(p) ==
  /\ pc[p] = "findManyUsers"
  /\ result' = [result EXCEPT ![p] =
                  [total |-> -1, items |-> FindManyUsers(users), count |-> -1]]
  /\ reads' = [reads EXCEPT ![p] = @ + 1]
  /\ Respond(p, Success(200, "", 0, FALSE))
  /\ UNCHANGED <<storeVars, op, req, writes, histVars, calls, query, pagination,
                 total, items, config, log, before, failure>>

\* The controller's catch clause:
\* createError(500, err.message || 'Failed to fetch users', INTERNAL_ERROR)
GetAllUsersError(msg) ==
  createError(500,
              IF Text(msg) # "" THEN Text(msg) ELSE "Failed to fetch users",
              ErrorCodes.INTERNAL_ERROR)

\* The query throws; the controller rethrows what its catch clause built.
GetAllUsersFails(p, msg) ==
  /\ pc[p] = "findManyUsers"
  /\ asyncHandlerCatch(p, GetAllUsersError(msg))
  /\ reads' = [reads EXCEPT ![p] = @ + 1]
  /\ UNCHANGED <<storeVars, op, req, writes, histVars, throwVars>>
  /\ failure' = [failure EXCEPT ![p] = msg]

Next ==
  \/ \E p \in Procs, r \in Pairs : FollowStart(p, r)
  \/ \E p \in Procs : FollowFindFollower(p)
  \/ \E p \in Procs : FollowFindFollowee(p)
  \/ \E p \in Procs : FollowUserNotFound(p)
  \/ \E p \in Procs : FollowCreate(p)
  \/ \E p \in Procs, r \in Pairs : UnfollowStart(p, r)
  \/ \E p \in Procs : UnfollowFind(p)
  \/ \E p \in Procs : UnfollowDelete(p)
  \/ \E p \in Procs, r \in Pairs : IsFollowing(p, r)
  \/ \E u \in UserIds : DeleteUser(u)

Spec == Init /\ [][Next]_vars

\* The pairs of two different users.
SeqPairs == {r \in Pairs : r.followerId # r.followeeId}

\* The requests of a client while no user is deleted.
NextSeq ==
  \/ \E p \in Procs, r \in SeqPairs : FollowStart(p, r)
  \/ \E p \in Procs : FollowFindFollower(p)
  \/ \E p \in Procs : FollowFindFollowee(p)
  \/ \E p \in Procs : FollowUserNotFound(p)
  \/ \E p \in Procs : FollowCreate(p)
  \/ \E p \in Procs, r \in SeqPairs : UnfollowStart(p, r)
  \/ \E p \in Procs : UnfollowFind(p)
  \/ \E p \in Procs : UnfollowDelete(p)
  \/ \E p \in Procs, r \in SeqPairs : IsFollowing(p, r)

SpecSeq == InitSeq /\ [][NextSeq]_vars

\* Reads running concurrently with writes and user deletions.
NextRead ==
  \/ Next
  \/ \E p \in Procs, o \in ListOps, u \in UserIds, q \in ReadPages :
       ListStart(p, o, u, q)
  \/ \E p \in Procs, o \in CountOps, u \in UserIds : CountStart(p, o, u)
  \/ \E p \in Procs : ReadFindUser(p)
  \/ \E p \in Procs : ListCount(p)
  \/ \E p \in Procs : ListFindMany(p)
  \/ \E p \in Procs : ListReturn(p)
  \/ \E p \in Procs : CountQuery(p)
  \/ Tick

InitRead ==
  /\ InitStore
  /\ InitHandlers
  /\ config = [budget |-> MaxCalls, handlers |-> Procs, logging |-> FALSE]

SpecRead == InitRead /\ [][NextRead]_vars

\* A quiescent store: the users of init.sql, and alice with up to four
\* followers (or following up to four users), the edges created at any of two
\* instants. No write is in flight and none begins.
ListUsers == {"alice", "bob", "charlie", "diana", "eve"}

Fans == <<"bob", "charlie", "diana", "eve">>

Times == {1, 2}

StarEdge(i, inward) ==
  IF inward THEN [id |-> i, followerId |-> Fans[i], followeeId |-> "alice"]
            ELSE [id |-> i, followerId |-> "alice", followeeId |-> Fans[i]]

InitQuiescentStore ==
  /\ users = ListUsers
  /\ \E k \in 0..Len(Fans), inward \in BOOLEAN :
       /\ follows = {StarEdge(i, inward) : i \in 1..k}
       /\ createdAt \in [1..k -> Times]
       /\ nextId = k + 1
  /\ now = 2

\* The user identifiers and paginations the readers of the quiescent store ask
\* about; nobody is the identifier of no user.
ListIds == {"alice", "bob", "nobody"}

ListPairs == [followerId : ListIds, followeeId : ListIds]

ListPages ==
  {NoQuery} \cup [limit : {"1", "2", "100"}, offset : {"0", "1", "2"}]

\* One reader at a time.
InitList ==
  /\ InitQuiescentStore
  /\ InitHandlers
  /\ config = [budget |-> MaxListCalls, handlers |-> {1}, logging |-> FALSE]

NextList ==
  \/ \E p \in Procs, o \in ListOps, u \in ListIds, q \in ListPages :
       ListStart(p, o, u, q)
  \/ \E p \in Procs, o \in CountOps, u \in ListIds : CountStart(p, o, u)
  \/ \E p \in Procs : ReadFindUser(p)
  \/ \E p \in Procs : ListCount(p)
  \/ \E p \in Procs : ListFindMany(p)
  \/ \E p \in Procs : ListReturn(p)
  \/ \E p \in Procs : CountQuery(p)
  \/ \E p \in Procs, r \in ListPairs : IsFollowing(p, r)

SpecList == InitList /\ [][NextList]_vars

\* The HTTP boundary: one client sending well-formed and malformed requests.
\* An identifier in a request is a UUID, a string that is none, or missing.
RawIds == Uuids \cup {"not-a-uuid", Undefined}

RawPairs == [followerId : RawIds, followeeId : RawIds]

\* The pairs of strings, which GET /follows/check passes to the service.
StringPairs == [followerId : RawIds \ {Undefined}, followeeId : RawIds \ {Undefined}]

\* The pairs of UUIDs, which POST and DELETE /follows pass to the service.
UuidPairs == [followerId : Uuids, followeeId : Uuids]

RawQueries ==
  [limit : {Undefined, "0", "1", "100", "101", "abc"},
   offset : {Undefined, "0", "2", "-1", "1.5"}]

InitHttp ==
  /\ InitStore
  /\ InitHandlers
  /\ config = [budget |-> MaxCalls, handlers |-> {1}, logging |-> FALSE]

NextHttp ==
  \/ \E p \in Procs, r \in UuidPairs : FollowStart(p, r)
  \/ \E p \in Procs : FollowFindFollower(p)
  \/ \E p \in Procs : FollowFindFollowee(p)
  \/ \E p \in Procs : FollowUserNotFound(p)
  \/ \E p \in Procs : FollowCreate(p)
  \/ \E p \in Procs, r \in UuidPairs : UnfollowStart(p, r)
  \/ \E p \in Procs : UnfollowFind(p)
  \/ \E p \in Procs : UnfollowDelete(p)
  \/ \E p \in Procs, o \in {"follow", "unfollow"}, r \in RawPairs : BodyRejected(p, o, r)
  \/ \E p \in Procs, r \in StringPairs : IsFollowing(p, r)
  \/ \E p \in Procs, r \in RawPairs : IsFollowingMissingParams(p, r)
  \/ \E p \in Procs, o \in ListOps, u \in Uuids, qs \in RawQueries :
       ListStart(p, o, u, qs)
  \/ \E p \in Procs, o \in CountOps, u \in Uuids : CountStart(p, o, u)
  \/ \E p \in Procs : ReadFindUser(p)
  \/ \E p \in Procs : ListCount(p)
  \/ \E p \in Procs : ListFindMany(p)
  \/ \E p \in Procs : ListReturn(p)
  \/ \E p \in Procs : CountQuery(p)
  \/ \E p \in Procs : RouteNotFound(p)

SpecHttp == InitHttp /\ [][NextHttp]_vars

\* Two readers paging through alice's followers and following, two per page.
TwoPerPage == [limit : {"2"}, offset : {"0", "2"}]

InitPages ==
  /\ InitQuiescentStore
  /\ InitHandlers
  /\ config = [budget |-> MaxCalls, handlers |-> Procs, logging |-> FALSE]

NextPages ==
  \/ \E p \in Procs, o \in ListOps, q \in TwoPerPage : ListStart(p, o, "alice", q)
  \/ \E p \in Procs : ReadFindUser(p)
  \/ \E p \in Procs : ListCount(p)
  \/ \E p \in Procs : ListFindMany(p)
  \/ \E p \in Procs : ListReturn(p)

SpecPages == InitPages /\ [][NextPages]_vars

\* The store may fail any call: one client on every route, a user deletion out
\* of band, and each store call returning or throwing.
FaultPages == ReadPages \cup {[limit |-> "0", offset |-> "0"]}

InitFault ==
  /\ InitStore
  /\ InitHandlers
  /\ config = [budget |-> MaxFaultCalls, handlers |-> {1}, logging |-> FALSE]

\* A store call of handler p's request returns or throws, or the service
\* answers from what the calls returned.
HandlerStep(p) ==
  \/ FollowFindFollower(p)
  \/ FollowFindFollowee(p)
  \/ FollowUserNotFound(p)
  \/ FollowCreate(p)
  \/ UnfollowFind(p)
  \/ UnfollowDelete(p)
  \/ ReadFindUser(p)
  \/ ListCount(p)
  \/ ListFindMany(p)
  \/ ListReturn(p)
  \/ CountQuery(p)
  \/ GetAllUsersReturn(p)
  \/ \E msg \in FaultMsgs : FollowFindUsersFails(p, msg)
  \/ \E msg \in FaultMsgs : FollowCreateFails(p, msg)
  \/ \E msg \in FaultMsgs : UnfollowFindFails(p, msg)
  \/ \E msg \in FaultMsgs : UnfollowDeleteFails(p, msg)
  \/ \E msg \in FaultMsgs : ReadFails(p, msg)
  \/ \E msg \in FaultMsgs : GetAllUsersFails(p, msg)

NextFault ==
  \/ \E p \in Procs, r \in UuidPairs : FollowStart(p, r)
  \/ \E p \in Procs, r \in UuidPairs : UnfollowStart(p, r)
  \/ \E p \in Procs, o \in {"follow", "unfollow"}, r \in RawPairs : BodyRejected(p, o, r)
  \/ \E p \in Procs, r \in StringPairs : IsFollowing(p, r)
  \/ \E p \in Procs, r \in StringPairs, msg \in FaultMsgs : IsFollowingFails(p, r, msg)
  \/ \E p \in Procs, r \in RawPairs : IsFollowingMissingParams(p, r)
  \/ \E p \in Procs, o \in ListOps, u \in Uuids, qs \in FaultPages :
       ListStart(p, o, u, qs)
  \/ \E p \in Procs, o \in CountOps, u \in Uuids : CountStart(p, o, u)
  \/ \E p \in Procs : GetAllUsersStart(p)
  \/ \E p \in Procs : HandlerStep(p)
  \/ \E u \in UserIds : DeleteUser(u)

SpecFault == InitFault /\ [][NextFault]_vars

\* The same, with every store call that was issued returning or throwing.
SpecLive == InitFault /\ [][NextFault]_vars /\ \A p \in Procs : WF_vars(HandlerStep(p))

\* A store that holds the edge (alice, bob), and concurrent Follow and Unfollow
\* calls on the pair and on its reverse.
InitEdge ==
  /\ users = UserIds
  /\ follows = {[id |-> 1, followerId |-> "alice", followeeId |-> "bob"]}
  /\ nextId = 2
  /\ createdAt = [i \in {1} |-> 0]
  /\ now = 0
  /\ InitHandlers
  /\ config = [budget |-> MaxEdgeCalls, handlers |-> Procs, logging |-> FALSE]

NextEdge ==
  \/ \E p \in Procs, r \in SeqPairs : FollowStart(p, r)
  \/ \E p \in Procs : FollowFindFollower(p)
  \/ \E p \in Procs : FollowFindFollowee(p)
  \/ \E p \in Procs : FollowCreate(p)
  \/ \E p \in Procs, r \in SeqPairs : UnfollowStart(p, r)
  \/ \E p \in Procs : UnfollowFind(p)
  \/ \E p \in Procs : UnfollowDelete(p)

SpecEdge == InitEdge /\ [][NextEdge]_vars

\* The seeded users alice, bob and carol, no edge, and one client that follows,
\* unfollows, checks and counts.
SeedUsers == {"alice", "bob", "carol"}

SeedPairs ==
  {r \in [followerId : SeedUsers, followeeId : SeedUsers] :
     r.followerId # r.followeeId}

InitScenario ==
  /\ users = SeedUsers
  /\ follows = {}
  /\ nextId = 1
  /\ createdAt = <<>>
  /\ now = 0
  /\ InitHandlers
  /\ config = [budget |-> MaxScenarioCalls, handlers |-> {1}, logging |-> FALSE]

NextScenario ==
  \/ \E p \in Procs, r \in SeedPairs : FollowStart(p, r)
  \/ \E p \in Procs : FollowFindFollower(p)
  \/ \E p \in Procs : FollowFindFollowee(p)
  \/ \E p \in Procs : FollowCreate(p)
  \/ \E p \in Procs, r \in SeedPairs : UnfollowStart(p, r)
  \/ \E p \in Procs : UnfollowFind(p)
  \/ \E p \in Procs : UnfollowDelete(p)
  \/ \E p \in Procs, r \in SeedPairs : IsFollowing(p, r)
  \/ \E p \in Procs, o \in CountOps, u \in SeedUsers : CountStart(p, o, u)
  \/ \E p \in Procs : ReadFindUser(p)
  \/ \E p \in Procs : CountQuery(p)

SpecScenario == InitScenario /\ [][NextScenario]_vars

\* ================================================================ claims
\* Expected responses.
SelfFollowResponse ==
  [status |-> 400, success |-> FALSE, message |-> "Cannot follow yourself",
   code |-> "SELF_FOLLOW", id |-> 0, isFollowing |-> FALSE]

DuplicateFollowResponse ==
  [status |-> 409, success |-> FALSE, message |-> "Already following this user",
   code |-> "DUPLICATE_FOLLOW", id |-> 0, isFollowing |-> FALSE]

FollowNotFoundResponse ==
  [status |-> 404, success |-> FALSE, message |-> "Follow relationship not found",
   code |-> "FOLLOW_NOT_FOUND", id |-> 0, isFollowing |-> FALSE]

UserNotFoundResponse(message) ==
  [status |-> 404, success |-> FALSE, message |-> message,
   code |-> "USER_NOT_FOUND", id |-> 0, isFollowing |-> FALSE]

\* The edge (a follower of b) under identifier i.
Edge(i, r) == [id |-> i, followerId |-> r.followerId, followeeId |-> r.followeeId]

PairEdges(r) == {f \in follows : f.followerId = r.followerId /\ f.followeeId = r.followeeId}

SelfPair(r) == r.followerId = r.followeeId

\* p's last request was a followUser call that has been answered.
FollowDone(p) == pc[p] = "idle" /\ op[p] = "follow"

\* p's last request was a followUser call that returned an edge identifier.
FollowSucceeded(p) ==
  FollowDone(p) /\ response[p].status = 201 /\ response[p].success

\* C1: in every reachable state of the shared store there is at most one follow
\* edge for every ordered pair (source, target), whatever Follow and Unfollow
\* steps the concurrent service instances have interleaved.
C1_AtMostOneEdgePerPair ==
  \A f, g \in follows :
     (f.followerId = g.followerId /\ f.followeeId = g.followeeId) => f = g

\* A Follow that overlapped another Follow of the same pair was rejected as a
\* duplicate and the pair has its one edge.
C1_Witness ==
  \E p \in Procs :
     /\ FollowDone(p) /\ rivals[p] >= 1
     /\ response[p].status = 409
     /\ Cardinality(PairEdges(req[p])) = 1

\* Two answered Follow(A,B) calls, A # B, that overlapped each other and no
\* third Follow of the pair, began with no (A,B) edge in the store, and whose
\* users and edge nobody has removed since.
Raced(p, q) ==
  /\ p # q /\ FollowDone(p) /\ FollowDone(q)
  /\ req[p] = req[q] /\ ~SelfPair(req[p])
  /\ edgeAtStart[p] = 0 /\ edgeAtStart[q] = 0
  /\ rivals[p] = 1 /\ rivals[q] = 1
  /\ ~disturbed[p] /\ ~disturbed[q]
  /\ req[p].followerId \in users /\ req[p].followeeId \in users

C3_NoSelfEdge ==
  /\ \A f \in follows : f.followerId # f.followeeId
  /\ \A p \in Procs :
        (op[p] = "follow" /\ SelfPair(req[p])) => (pc[p] = "idle" /\ writes[p] = 0)
  /\ \A u \in UserIds : ~StoreCreate(follows, users, nextId, u, u).ok

\* A self-follow was refused while the store holds edges.
C3_Witness ==
  \E p \in Procs :
     /\ FollowDone(p) /\ SelfPair(req[p])
     /\ response[p].status = 400
     /\ follows # {}

\* A followUser call on (A,A) is answered at once with SelfFollow, having
\* issued no store call.
SelfFollowAnswered(p) ==
  /\ pc[p] = "idle"
  /\ response[p] = SelfFollowResponse
  /\ reads[p] = 0 /\ writes[p] = 0

\* C4: Follow(A,A) fails with SelfFollow (400, SELF_FOLLOW), never with
\* UserNotFound, whether or not user A exists; it issues no read and no write
\* and the step leaves the store as it was.
C4_SelfFollowRejected ==
  /\ [](\A p \in Procs :
          (op[p] = "follow" /\ SelfPair(req[p])) => SelfFollowAnswered(p))
  /\ [][\A p \in Procs :
          (pc[p] = "idle" /\ calls' # calls
             /\ op'[p] = "follow" /\ SelfPair(req'[p]))
          => (SelfFollowAnswered(p)' /\ follows' = follows /\ users' = users)]_vars

\* A self-follow of a user that did not exist during the call.
C4_Witness ==
  \E p \in Procs :
     /\ FollowDone(p) /\ SelfPair(req[p])
     /\ req[p].followerId \notin users /\ ~disturbed[p]
     /\ response[p].code = "SELF_FOLLOW"

Surviving(fs, us) == {f \in fs : f.followerId \in us /\ f.followeeId \in us}

\* C6: in every reachable state both endpoints of every edge are existing
\* users; a user deletion removes exactly the edges that user is an endpoint
\* of, so the follower and following counts of the remaining users drop by the
\* number of their removed edges; a Follow whose existence check passed before
\* an endpoint was deleted leaves no edge to the deleted user.
C6_EndpointsExist ==
  /\ [](\A f \in follows : f.followerId \in users /\ f.followeeId \in users)
  /\ [][users' # users =>
          /\ follows' = Surviving(follows, users')
          /\ \A v \in users' :
                /\ FollowerCount(follows', v) =
                     FollowerCount(follows, v)
                       - Cardinality({f \in follows : f.followeeId = v
                                                      /\ f.followerId \notin users'})
                /\ FollowingCount(follows', v) =
                     FollowingCount(follows, v)
                       - Cardinality({f \in follows : f.followerId = v
                                                      /\ f.followeeId \notin users'})]_vars

\* A Follow passed both existence checks, an endpoint was deleted before the
\* insert, and the insert was refused.
C6_Witness ==
  \E p \in Procs :
     /\ FollowDone(p) /\ writes[p] = 1 /\ disturbed[p]
     /\ ~response[p].success /\ response[p].status # 409
     /\ (req[p].followerId \notin users \/ req[p].followeeId \notin users)
     /\ PairEdges(req[p]) = {}

\* C7: for A # B, a Follow(A,B) whose existence check found user A or user B
\* absent fails with UserNotFound (404) and creates no edge; the message names
\* the follower whenever the follower is absent, also when both are, and the
\* followee only when the follower exists and the followee does not.
C7_UserNotFoundNamesEndpoint ==
  [][\A p \in Procs :
        /\ (followerExists[p] = "pending" /\ followerExists'[p] # "pending") =>
              (followerExists'[p] = "null" <=> req[p].followerId \notin users)
        /\ (followeeExists[p] = "pending" /\ followeeExists'[p] # "pending") =>
              (followeeExists'[p] = "null" <=> req[p].followeeId \notin users)
        /\ (pc[p] = "findUsers" /\ pc'[p] # "findUsers") =>
              /\ followerExists[p] # "pending" /\ followeeExists[p] # "pending"
              /\ followerExists[p] = "null" =>
                    /\ response'[p] = UserNotFoundResponse("Follower user not found")
                    /\ follows' = follows /\ writes'[p] = 0
              /\ (followerExists[p] = "found" /\ followeeExists[p] = "null") =>
                    /\ response'[p] = UserNotFoundResponse("Followee user not found")
                    /\ follows' = follows /\ writes'[p] = 0]_vars

\* A Follow(A,B), A # B, with neither user existing during the call, answered
\* with the follower named.
C7_Witness ==
  \E p \in Procs :
     /\ FollowDone(p) /\ ~SelfPair(req[p]) /\ ~disturbed[p]
     /\ req[p].followerId \notin users /\ req[p].followeeId \notin users
     /\ response[p] = UserNotFoundResponse("Follower user not found")

\* C8: when an endpoint is deleted after the existence check passed and before
\* the insert, the store's refusal of the insert is reported as UserNotFound
\* (404), not as Internal (500) and not as success.
C8_ForeignKeyRejectionIsUserNotFound ==
  \A p \in Procs :
     (/\ FollowDone(p) /\ writes[p] = 1
      /\ ~response[p].success /\ response[p].code # "DUPLICATE_FOLLOW") =>
        (response[p].status = 404 /\ response[p].code = "USER_NOT_FOUND")

\* C9: a successful Follow(A,B) of existing users A # B has persisted one new
\* edge from A to B (not from B to A) and returned its store-assigned
\* identifier; while no Unfollow(A,B) or user deletion intervenes, that edge
\* is the pair's edge and an IsFollowing(A,B) issued after the answer returns
\* true.
C9_FollowPersistsEdge ==
  /\ \A f, g \in follows : f.id = g.id => f = g
  /\ \A f \in follows : f.id >= 1 /\ f.id < nextId
  /\ \A p \in Procs :
        (FollowSucceeded(p) /\ ~disturbed[p]) =>
           /\ ~SelfPair(req[p])
           /\ req[p].followerId \in users /\ req[p].followeeId \in users
           /\ response[p].id # 0
           /\ PairEdges(req[p]) = {Edge(response[p].id, req[p])}
  /\ \A p, q \in Procs :
        (/\ FollowSucceeded(p) /\ ~disturbed[p]
         /\ pc[q] = "idle" /\ op[q] = "isFollowing"
         /\ req[q] = req[p] /\ p \in after[q]) =>
           (response[q].status = 200 /\ response[q].isFollowing)

\* A Follow answered with an identifier and an IsFollowing of the pair, issued
\* after that answer, answered true, while the reverse edge is absent.
C9_Witness ==
  \E p, q \in Procs :
     /\ FollowSucceeded(p) /\ ~disturbed[p]
     /\ pc[q] = "idle" /\ op[q] = "isFollowing"
     /\ req[q] = req[p] /\ p \in after[q]
     /\ response[q].isFollowing
     /\ \A f \in follows : ~(f.followerId = req[p].followeeId
                             /\ f.followeeId = req[p].followerId)

\* C10: an Unfollow(A,B) whose lookup finds no (A,B) edge fails with
\* FollowNotFound (404, FOLLOW_NOT_FOUND), issues no delete and leaves users
\* and edges unchanged, also when A or B is no existing user and when only
\* the reverse edge (B,A) exists.
C10_UnfollowAbsentEdge ==
  [][\A p \in Procs :
        (pc[p] = "findFollow" /\ pc'[p] # "findFollow" /\ PairEdges(req[p]) = {}) =>
           /\ pc'[p] = "idle"
           /\ response'[p] = FollowNotFoundResponse
           /\ writes'[p] = 0
           /\ follows' = follows /\ users' = users]_vars

\* An Unfollow(A,B) answered FollowNotFound, having issued no delete, while
\* the reverse edge (B,A) exists and stays in the store.
C10_Witness ==
  \E p \in Procs :
     /\ pc[p] = "idle" /\ op[p] = "unfollow"
     /\ response[p] = FollowNotFoundResponse /\ writes[p] = 0
     /\ ~SelfPair(req[p]) /\ ~disturbed[p]
     /\ edgeAtStart[p] = 0
     /\ PairEdges([followerId |-> req[p].followeeId,
                   followeeId |-> req[p].followerId]) # {}

\* ------------------------------------------------------------------- C11
\* The requests of the sequential client that have been answered, oldest first.
Answered ==
  IF Finished(1)
    THEN Append(log, [op |-> op[1], req |-> req[1], response |-> response[1],
                      before |-> before[1]])
    ELSE log

\* The pairs in the store when the i-th answered request had been answered.
PairsAfter(i) ==
  IF i < Len(Answered) THEN Answered[i + 1].before
  ELSE IF Finished(1) THEN PairsIn(follows)
  ELSE before[1]

UnfollowedResponse == Success(200, "User unfollowed successfully", 0, FALSE)

\* The i-th answered request is a successful Follow of a pair that had no edge,
\* and the next one is Unfollow of the same pair.
RoundTripAt(i) ==
  /\ i + 1 <= Len(Answered)
  /\ Answered[i].op = "follow"
  /\ Answered[i].response.status = 201
  /\ Answered[i].req \notin Answered[i].before
  /\ Answered[i + 1].op = "unfollow"
  /\ Answered[i + 1].req = Answered[i].req

\* No Follow of pair r succeeded among the answered requests i..j.
NoFollowBetween(r, i, j) ==
  \A k \in i..j : ~(Answered[k].op = "follow" /\ Answered[k].req = r
                     /\ Answered[k].response.status = 201)

\* C11: from a store without an edge (A,B), and with no user deleted, a
\* successful Follow(A,B) followed by Unfollow(A,B): the Unfollow succeeds, the
\* set of (follower, followee) pairs is then the set before the Follow, an
\* IsFollowing(A,B) asked before the next Follow(A,B) answers false, and the next
\* Follow(A,B) succeeds again.
C11_FollowUnfollowRoundTrip ==
  users = UserIds =>
    \A i \in 1..Len(Answered) :
      RoundTripAt(i) =>
        /\ Answered[i + 1].response = UnfollowedResponse
        /\ PairsAfter(i + 1) = Answered[i].before
        /\ \A j \in (i + 2)..Len(Answered) :
             (Answered[j].req = Answered[i].req
                /\ NoFollowBetween(Answered[i].req, i + 2, j - 1)) =>
               /\ Answered[j].op = "isFollowing" =>
                    /\ Answered[j].response.status = 200
                    /\ ~Answered[j].response.isFollowing
               /\ Answered[j].op = "follow" => Answered[j].response.status = 201

\* Follow(A,B), Unfollow(A,B), IsFollowing(A,B), Follow(A,B) have been answered
\* in this order, the Follow calls with 201.
C11_Witness ==
  /\ users = UserIds
  /\ Len(Answered) = 4
  /\ RoundTripAt(1)
  /\ Answered[3].op = "isFollowing"
  /\ Answered[4].op = "follow"
  /\ Answered[3].req = Answered[1].req
  /\ Answered[4].req = Answered[1].req
  /\ Answered[4].response.status = 201

\* ------------------------------------------------------------------- C12
\* The edges of pair r after the step.
PairEdgesNext(r) ==
  {f \in follows' : f.followerId = r.followerId /\ f.followeeId = r.followeeId}

\* This step ends handler p's request o on pair r with the given status.
EndsWith(p, o, r, status) ==
  /\ Running(p)
  /\ pc'[p] = "idle"
  /\ op[p] = o
  /\ req[p] = r
  /\ response'[p].status = status

\* This step deletes an endpoint of pair r.
EndpointDeleted(r) ==
  r.followerId \in users \ users' \/ r.followeeId \in users \ users'

ReadOps == {"isFollowing", "getFollowers", "getFollowing", "getFollowerCount",
            "getFollowingCount"}

\* This step is taken by a read operation: it begins one, or moves one on.
ReadStep ==
  \E p \in Procs :
    /\ op'[p] \in ReadOps
    /\ \/ pc'[p] # pc[p]
       \/ calls' # calls /\ pc[p] = "idle" /\ pc'[p] = "idle"

\* This step ends a request with an error response.
FailedStep ==
  \E p \in Procs :
    /\ pc'[p] = "idle"
    /\ Running(p) \/ calls' # calls
    /\ response'[p] # NoResponse
    /\ ~response'[p].success
    /\ Running(p) => op'[p] = op[p]

C12_EdgeStep ==
  /\ \A r \in Pairs :
       /\ (PairEdges(r) = {} /\ PairEdgesNext(r) # {}) =>
            /\ Cardinality(PairEdgesNext(r)) = 1
            /\ \E p \in Procs : EndsWith(p, "follow", r, 201)
       /\ (PairEdges(r) # {} /\ PairEdgesNext(r) = {}) =>
            \/ \E p \in Procs : EndsWith(p, "unfollow", r, 200)
            \/ EndpointDeleted(r)
       /\ (PairEdges(r) # {} /\ PairEdgesNext(r) # {}) =>
            /\ PairEdgesNext(r) = PairEdges(r)
            /\ \A f \in PairEdges(r) : createdAt'[f.id] = createdAt[f.id]
  /\ (ReadStep \/ FailedStep) => (follows' = follows /\ createdAt' = createdAt)

\* C12: for every ordered pair the edge is absent or present (one row); it
\* becomes present only in the step that ends a Follow of that pair with 201,
\* absent only in the step that ends an Unfollow of that pair with 200 or that
\* deletes one of its users; while present its identifier, follower, followee
\* and creation time stay the same; a step of a read operation and a step that
\* ends a request with an error change no edge.
C12_EdgeLifecycle == [][C12_EdgeStep]_vars

\* An edge was created by a Follow with 201 and then removed by an Unfollow of
\* the same pair with 200.
C12_Witness ==
  \E p, q \in Procs :
    /\ FollowSucceeded(p)
    /\ Finished(q)
    /\ op[q] = "unfollow"
    /\ req[q] = req[p]
    /\ p \in after[q]
    /\ edgeAtStart[q] = response[p].id
    /\ response[q].status = 200
    /\ PairEdges(req[p]) = {}

\* ------------------------------------------------------------------- C13
\* p's last request has been answered and was about a user that does not exist.
AnsweredUnknownUser(p) ==
  /\ Finished(p)
  /\ req[p].followerId \notin users \/ req[p].followeeId \notin users

IsUserNotFound(r) ==
  r.status = 404 /\ ~r.success /\ r.code = "USER_NOT_FOUND"

\* C13 as stated: every read operation, IsFollowing included, given the
\* identifier of a user that does not exist fails with UserNotFound (404).
C13_EveryReadOfUnknownUserFails ==
  \A p \in Procs :
    (AnsweredUnknownUser(p) /\ op[p] \in ReadOps) => IsUserNotFound(response[p])

\* C13, amended: in a quiescent store every ListFollowers, ListFollowing,
\* FollowerCount and FollowingCount call given the identifier of a user that does
\* not exist fails with 404 USER_NOT_FOUND "User not found" and returns no data;
\* IsFollowing checks no user and answers 200 with isFollowing false when its
\* source or target is not an existing user.
C13_ListAndCountOfUnknownUserFail ==
  \A p \in Procs :
    AnsweredUnknownUser(p) =>
      /\ op[p] \in ListOps \cup CountOps =>
           /\ response[p] = UserNotFoundResponse("User not found")
           /\ result[p] = NoData
      /\ op[p] = "isFollowing" =>
           /\ response[p].status = 200
           /\ response[p].success
           /\ ~response[p].isFollowing

\* A paginated ListFollowing of a user that does not exist has been answered.
C13_Witness ==
  \E p \in Procs :
    /\ AnsweredUnknownUser(p)
    /\ op[p] = "getFollowing"
    /\ pagination[p] # DefaultPagination
    /\ IsUserNotFound(response[p])

\* ------------------------------------------------------------------- C14
\* This step takes a request on handler p and changes no other handler.
Took(p) ==
  /\ calls' = calls + 1
  /\ pc[p] = "idle"
  /\ \A q \in Procs \ {p} :
       /\ pc'[q] = pc[q]
       /\ op'[q] = op[q]
       /\ req'[q] = req[q]
       /\ response'[q] = response[q]

\* A request was taken and answered in one step, and every handler that can
\* have taken it shows an isFollowing call.
IsFollowingStep ==
  /\ calls' # calls
  /\ pc' = pc
  /\ \A p \in Procs : Took(p) => op'[p] = "isFollowing"

IsFollowingResponse(flag) ==
  [status |-> 200, success |-> TRUE, message |-> "", code |-> "", id |-> 0,
   isFollowing |-> flag]

\* C14: IsFollowing(source, target) answers true exactly when an edge
\* (source, target) is in the store at the lookup, false otherwise, for every
\* pair, unknown users and source = target included; it changes nothing in the
\* store and answers 200, never a business error.
C14_IsFollowingIsLookup ==
  [][IsFollowingStep =>
       /\ users' = users
       /\ follows' = follows
       /\ createdAt' = createdAt
       /\ nextId' = nextId
       /\ \E p \in Procs :
            /\ Took(p)
            /\ op'[p] = "isFollowing"
            /\ response'[p] = IsFollowingResponse(PairEdges(req'[p]) # {})]_vars

\* IsFollowing has answered true for a pair whose reverse edge is absent.
C14_Witness ==
  \E p \in Procs :
    /\ Finished(p)
    /\ op[p] = "isFollowing"
    /\ response[p].isFollowing
    /\ PairEdges(req[p]) # {}
    /\ PairEdges([followerId |-> req[p].followeeId,
                  followeeId |-> req[p].followerId]) = {}

\* ------------------------------------------------------------------- C15
\* The users with an edge to u, and the users u has an edge to.
FollowersOf(u) == {f.followerId : f \in {g \in follows : g.followeeId = u}}

FollowingOf(u) == {f.followeeId : f \in {g \in follows : g.followerId = u}}

\* p's last request was operation o on the existing user u and was answered 200.
Served(p, o, u) ==
  /\ Finished(p)
  /\ op[p] = o
  /\ req[p] = [followerId |-> u, followeeId |-> u]
  /\ response[p].status = 200
  /\ response[p].success

\* C15: in a quiescent store FollowerCount(B) is the number of distinct users
\* with an edge to B and FollowingCount(B) the number of distinct users B has an
\* edge to; with N users following B, FollowerCount(B) is N, which is also the
\* total that ListFollowers(B, 100, 0) returns.
C15_CountsMatchEdges ==
  \A p \in Procs, u \in users :
    /\ Served(p, "getFollowerCount", u) =>
         result[p] = [total |-> -1, items |-> <<>>,
                      count |-> Cardinality(FollowersOf(u))]
    /\ Served(p, "getFollowingCount", u) =>
         result[p] = [total |-> -1, items |-> <<>>,
                      count |-> Cardinality(FollowingOf(u))]
    /\ (Served(p, "getFollowers", u) /\ pagination[p] = [limit |-> 100, offset |-> 0]) =>
         /\ result[p].total = Cardinality(FollowersOf(u))
         /\ Len(result[p].items) = Cardinality(FollowersOf(u))
    /\ (Finished(p) /\ op[p] \in CountOps /\ req[p] = [followerId |-> u, followeeId |-> u]) =>
         Served(p, op[p], u)

\* FollowerCount of a user with four followers has been answered.
C15_Witness ==
  \E p \in Procs :
    /\ Served(p, "getFollowerCount", "alice")
    /\ Cardinality(FollowersOf("alice")) = 4
    /\ result[p].count = 4

\* ------------------------------------------------------------------- C16
\* The edges a listing o of user u ranges over, and the user each one shows.
ListedEdges(o, u) ==
  IF o = "getFollowers" THEN {f \in follows : f.followeeId = u}
                        ELSE {f \in follows : f.followerId = u}

Shown(o, f) == IF o = "getFollowers" THEN f.followerId ELSE f.followeeId

Smaller(a, b) == IF a < b THEN a ELSE b

\* The number of items at positions offset+1 .. offset+limit of n edges.
PageLength(n, pg) == Smaller(pg.limit, IF n > pg.offset THEN n - pg.offset ELSE 0)

\* Edge f can stand at position k of the edges es sorted by creation time, most
\* recent first: fewer than k edges are more recent, at least k are as recent.
CanStandAt(f, k, es) ==
  /\ Cardinality({g \in es : createdAt[g.id] > createdAt[f.id]}) < k
  /\ Cardinality({g \in es : createdAt[g.id] >= createdAt[f.id]}) >= k

\* C16: in a quiescent store ListFollowers(U, limit, offset), limit in 1..100
\* and offset >= 0, returns as total the number of all edges with target U,
\* whatever limit and offset are, and as items the follower users of the edges
\* at positions offset+1 .. offset+limit of those edges sorted by creation time,
\* most recent first (fewer items when the edges run out); ListFollowing does
\* the same with the edges whose source is U and their target users.
C16_ListIsPageOfSortedEdges ==
  \A p \in Procs, u \in users, o \in ListOps :
    Served(p, o, u) =>
      LET es == ListedEdges(o, u)
          its == result[p].items
      IN /\ pagination[p].limit \in 1..100
         /\ pagination[p].offset >= 0
         /\ result[p].total = Cardinality(es)
         /\ result[p].count = -1
         /\ Len(its) = PageLength(Cardinality(es), pagination[p])
         /\ \A i, j \in DOMAIN its : i # j => its[i] # its[j]
         /\ \A i \in DOMAIN its :
              \E f \in es : /\ Shown(o, f) = its[i]
                            /\ CanStandAt(f, pagination[p].offset + i, es)

\* The second page of two of alice's four followers, created at two instants,
\* has been returned.
C16_Witness ==
  \E p \in Procs :
    /\ Served(p, "getFollowers", "alice")
    /\ pagination[p] = [limit |-> 2, offset |-> 1]
    /\ Cardinality(ListedEdges("getFollowers", "alice")) = 4
    /\ \E f, g \in follows : createdAt[f.id] # createdAt[g.id]
    /\ Len(result[p].items) = 2

\* ------------------------------------------------------------------- C17
Elements(its) == {its[i] : i \in DOMAIN its}

\* p's last request was ListFollowers(alice, 2, offset), answered 200.
PageServed(p, offset) ==
  /\ Served(p, "getFollowers", "alice")
  /\ pagination[p] = [limit |-> 2, offset |-> offset]

\* C17: with at least four followers and an unchanged store, the pages
\* ListFollowers(U, 2, 0) and ListFollowers(U, 2, 2) are disjoint and together
\* hold four followers (no overlap, no gap), and two calls with the same limit
\* and offset return the same page, edges of equal creation time included.
C17_PagesAreStable ==
  \A p, q \in Procs :
    Cardinality(FollowersOf("alice")) >= 4 =>
      /\ (PageServed(p, 0) /\ PageServed(q, 2)) =>
           /\ Elements(result[p].items) \cap Elements(result[q].items) = {}
           /\ Cardinality(Elements(result[p].items) \cup Elements(result[q].items)) = 4
      /\ \A offset \in {0, 2} :
           (PageServed(p, offset) /\ PageServed(q, offset)) =>
             result[p].items = result[q].items

\* ------------------------------------------------------------------- C18
\* C18: the (total, items) that one ListFollowers or ListFollowing call returns
\* while a Follow or Unfollow is in flight is what the call would return on the
\* store before the write or on the store after it; in particular, with offset
\* 0 and limit >= total, the number of items is total.
C18_TotalAndItemsOfOneState ==
  \A p \in Procs, u \in UserIds, o \in ListOps :
    (/\ Finished(p)
     /\ op[p] = o
     /\ req[p] = Self(u)
     /\ response[p].status = 200
     /\ pagination[p].offset = 0
     /\ pagination[p].limit >= result[p].total) =>
      Len(result[p].items) = result[p].total

\* ------------------------------------------------------------------- C19
\* p's last request carried malformed or out-of-range data: an identifier that
\* is no UUID on POST /follows, DELETE /follows or GET /follows/check, or a
\* limit outside 1..100 or an offset below 0 on a listing.
MalformedRequest(p) ==
  /\ Finished(p)
  /\ \/ /\ op[p] \in {"follow", "unfollow", "isFollowing"}
        /\ req[p].followerId \notin Uuids \/ req[p].followeeId \notin Uuids
     \/ /\ op[p] \in ListOps
        /\ \/ query[p].limit \notin {Undefined, "1", "100"}
           \/ query[p].offset \notin {Undefined, "0", "2"}

InvalidInputAnswer(r) ==
  r.status = 400 /\ ~r.success /\ r.code = "INVALID_INPUT"

\* p's last request was a listing that reached the service.
ListingReachedService(p) ==
  Finished(p) /\ op[p] \in ListOps /\ reads[p] > 0

\* C19: a request with malformed or out-of-range data is answered 400
\* INVALID_INPUT without any store access by the service, and a listing whose
\* limit and offset are omitted reaches the service with limit 20 and offset 0.
C19_MalformedInputIsInvalidInput ==
  \A p \in Procs :
    /\ MalformedRequest(p) =>
         /\ InvalidInputAnswer(response[p])
         /\ reads[p] = 0
         /\ writes[p] = 0
    /\ (ListingReachedService(p) /\ query[p] = NoQuery) =>
         pagination[p] = [limit |-> 20, offset |-> 0]

\* ------------------------------------------------------------------- C20
TaxonomyCodes ==
  {"SELF_FOLLOW", "USER_NOT_FOUND", "DUPLICATE_FOLLOW", "FOLLOW_NOT_FOUND",
   "INVALID_INPUT", "INTERNAL_ERROR"}

\* p's last request was answered with an error status.
ErrorAnswered(p) == Finished(p) /\ response[p].status >= 400

\* C20: every error response, on every route and for every cause (business
\* error, validation failure, missing query parameters of GET /follows/check,
\* unknown route, unclassified exception), has success = false, a message, and
\* a code of the taxonomy.
C20_ErrorBodyHasTaxonomyCode ==
  \A p \in Procs :
    ErrorAnswered(p) =>
      /\ ~response[p].success
      /\ response[p].message # ""
      /\ response[p].code \in TaxonomyCodes

\* ------------------------------------------------------------------- C21
InternalErrorResponse ==
  [status |-> 500, success |-> FALSE, message |-> "Internal server error",
   code |-> "INTERNAL_ERROR", id |-> 0, isFollowing |-> FALSE]

\* p's last request was operation o, passed validation, and has been answered.
ServiceAnswered(p, o) ==
  /\ Finished(p)
  /\ op[p] = o
  /\ req[p].followerId \in Uuids /\ req[p].followeeId \in Uuids
  /\ PaginationSchema(query[p]).ok

\* The store itself failed a call of p's last request.
StoreFailed(p) == failure[p] # NoMsg

\* C21: in every interleaving a self-follow is answered 400 SELF_FOLLOW, and a
\* request that fails while the store itself failed no call is answered with
\* the business code of its operation (SELF_FOLLOW 400, DUPLICATE_FOLLOW 409,
\* USER_NOT_FOUND 404 for Follow, FOLLOW_NOT_FOUND 404 for Unfollow,
\* USER_NOT_FOUND 404 for a listing or count), never 500 INTERNAL_ERROR; a
\* request at which the store itself failed is answered 500 INTERNAL_ERROR,
\* never a business code and never success.
C21_BusinessAndInternalApart ==
  \A p \in Procs :
    /\ (ServiceAnswered(p, "follow") /\ SelfPair(req[p])) =>
         response[p] = SelfFollowResponse
    /\ (ServiceAnswered(p, "follow") /\ ~StoreFailed(p) /\ ~response[p].success) =>
         response[p] \in {SelfFollowResponse, DuplicateFollowResponse,
                          UserNotFoundResponse("Follower user not found"),
                          UserNotFoundResponse("Followee user not found")}
    /\ (ServiceAnswered(p, "unfollow") /\ ~StoreFailed(p) /\ ~response[p].success) =>
         response[p] = FollowNotFoundResponse
    /\ \A o \in ListOps \cup CountOps :
         (ServiceAnswered(p, o) /\ ~StoreFailed(p) /\ ~response[p].success) =>
           response[p] = UserNotFoundResponse("User not found")
    /\ (Finished(p) /\ StoreFailed(p)) =>
         /\ response[p].status = 500
         /\ response[p].code = "INTERNAL_ERROR"
         /\ ~response[p].success

\* ------------------------------------------------------------------- C22
\* C22: every response with code INTERNAL_ERROR, on every route, carries the
\* one generic message "Internal server error", whatever the text of the error
\* that caused it: no message of a store or runtime error is in a response.
C22_InternalErrorMessageIsGeneric ==
  \A p \in Procs :
    (Finished(p) /\ response[p].code = "INTERNAL_ERROR") =>
      /\ response[p].message = "Internal server error"
      /\ \A msg \in FaultMsgs : response[p].message # Text(msg)

\* ------------------------------------------------------------------- C23
\* This step ends handler p's Follow with the outcome of its insert.
InsertSettles(p) ==
  /\ Running(p)
  /\ op[p] = "follow"
  /\ pc'[p] = "idle"
  /\ writes'[p] = writes[p] + 1

C23_InsertStep ==
  \A p \in Procs :
    InsertSettles(p) =>
      LET r == response'[p]
          existed == PairEdges(req[p]) # {}
          inserted == follows' # follows
      IN /\ r.code = "DUPLICATE_FOLLOW" =>
              (r = DuplicateFollowResponse /\ existed /\ failure'[p] = NoMsg)
         /\ (existed /\ failure'[p] = NoMsg) => r = DuplicateFollowResponse
         /\ r.success <=> inserted
         /\ inserted => (r.status = 201 /\ follows' = follows \cup {Edge(r.id, req[p])})
         /\ (~r.success /\ r.code # "DUPLICATE_FOLLOW") => r = InternalErrorResponse

\* C23: when Follow's insert settles, Follow reports DuplicateFollow (409)
\* exactly when the store rejected the insert for the uniqueness of (source,
\* target), that is when an edge (source, target) is in the store at the insert;
\* every other rejection, a foreign-key rejection or an error of an unavailable
\* store, is reported as Internal (500); Follow answers success exactly when
\* the edge was inserted.
C23_InsertRejectionClassified == [][C23_InsertStep]_vars

\* The store failed the insert of a Follow of a pair whose edge exists, and the
\* Follow was answered 500, not DuplicateFollow.
C23_Witness ==
  \E p \in Procs :
    /\ ServiceAnswered(p, "follow")
    /\ writes[p] = 1
    /\ StoreFailed(p)
    /\ PairEdges(req[p]) # {}
    /\ response[p] = InternalErrorResponse

\* ------------------------------------------------------------------- C24
\* The writes a request has issued, by what the request is and how it ended.
C24_WritesOfRequest ==
  \A p \in Procs :
    /\ writes[p] \in {0, 1}
    /\ op[p] \notin {"follow", "unfollow"} => writes[p] = 0
    /\ Running(p) => writes[p] = 0
    /\ (op[p] = "follow" /\ SelfPair(req[p])) => writes[p] = 0
    /\ (Finished(p) /\ response[p].code \in {"SELF_FOLLOW", "USER_NOT_FOUND",
                                              "FOLLOW_NOT_FOUND"}) =>
         writes[p] = 0
    /\ (Finished(p) /\ response[p].status \in {201, 409}) => writes[p] = 1
    /\ (Finished(p) /\ op[p] = "unfollow" /\ response[p].status = 200) =>
         writes[p] = 1

\* The writes a step issues: a Follow whose checks passed ends with its one
\* insert, an Unfollow whose lookup found the edge ends with its one delete,
\* and a step in which a request changes the table is one write of one handler
\* on one row.
C24_WriteStep ==
  /\ \A p \in Procs :
       /\ (pc[p] = "findUsers" /\ followerExists[p] = "found"
             /\ followeeExists[p] = "found" /\ pc'[p] = "idle") =>
            writes'[p] = 1
       /\ (pc[p] = "findFollow" /\ pc'[p] = "delete") =>
            (PairEdges(req[p]) # {} /\ writes'[p] = 0)
       /\ (pc[p] = "delete" /\ pc'[p] = "idle") => writes'[p] = 1
       /\ (Running(p) /\ writes'[p] # writes[p]) => pc'[p] = "idle"
  /\ (follows' # follows /\ users' = users) =>
       /\ \E p \in Procs :
            /\ writes'[p] = writes[p] + 1
            /\ \A q \in Procs \ {p} : writes'[q] = writes[q]
       /\ Cardinality((follows' \ follows) \cup (follows \ follows')) = 1

\* C24: every invocation issues at most one write to the store: Follow exactly
\* one insert when its checks pass and none when it fails with SelfFollow or
\* UserNotFound, Unfollow exactly one delete when its lookup finds the edge and
\* none when it fails with FollowNotFound, and a read operation none.
C24_AtMostOneWrite == [](C24_WritesOfRequest) /\ [][C24_WriteStep]_vars

\* An Unfollow whose lookup found the edge has been answered 200 after one
\* read and one write.
C24_Witness ==
  \E p \in Procs :
    /\ Finished(p)
    /\ op[p] = "unfollow"
    /\ response[p].status = 200
    /\ reads[p] = 1
    /\ writes[p] = 1

\* ------------------------------------------------------------------- C25
\* Unfollow of pair r as one atomic delete-by-pair on the table fs: what it
\* answers and the table it leaves.
DeleteByPair(fs, r) ==
  LET es == {f \in fs : f.followerId = r.followerId /\ f.followeeId = r.followeeId}
  IN IF es = {}
       THEN [response |-> FollowNotFoundResponse, follows |-> fs]
       ELSE [response |-> UnfollowedResponse, follows |-> fs \ es]

\* The step that ends an Unfollow answers, and leaves the table, as the atomic
\* delete-by-pair taken at that step does.
C25_UnfollowStep ==
  \A p \in Procs :
    (Running(p) /\ op[p] = "unfollow" /\ pc'[p] = "idle") =>
      /\ response'[p] = DeleteByPair(follows, req[p]).response
      /\ follows' = DeleteByPair(follows, req[p]).follows

\* C25: under every interleaving with concurrent Follow and Unfollow calls on
\* the pair, Unfollow as implemented (lookup by pair, then delete by
\* identifier) answers success or FollowNotFound and changes the store exactly
\* as a single atomic delete-by-pair Unfollow does.
C25_UnfollowIsAtomicDeleteByPair == [][C25_UnfollowStep]_vars

\* ------------------------------------------------------------------- C26
\* The rows of table fs that are no edge of pair r.
OtherEdges(fs, r) ==
  {f \in fs : ~(f.followerId = r.followerId /\ f.followeeId = r.followeeId)}

\* The step that ends a Follow(A,B) with 201 or an Unfollow(A,B) with 200
\* leaves the users and every row that is no (A,B) edge as they were; the
\* Follow adds one (A,B) edge, the Unfollow removes the (A,B) edge.
C26_FrameStep ==
  \A p \in Procs, r \in SeedPairs :
    /\ EndsWith(p, "follow", r, 201) =>
         /\ users' = users
         /\ OtherEdges(follows', r) = OtherEdges(follows, r)
         /\ PairEdges(r) = {}
         /\ Cardinality(PairEdgesNext(r)) = 1
    /\ EndsWith(p, "unfollow", r, 200) =>
         /\ users' = users
         /\ OtherEdges(follows', r) = OtherEdges(follows, r)
         /\ PairEdges(r) # {}
         /\ PairEdgesNext(r) = {}

Pair(a, b) == [followerId |-> a, followeeId |-> b]

\* alice follows bob and carol, bob follows carol, and there is no other edge.
ScenarioStore ==
  PairsIn(follows) = {Pair("alice", "bob"), Pair("alice", "carol"),
                      Pair("bob", "carol")}

CountResult(n) == [total |-> -1, items |-> <<>>, count |-> n]

\* p's last request was IsFollowing of pair r and has been answered.
Checked(p, r) == Finished(p) /\ op[p] = "isFollowing" /\ req[p] = r

\* What the client is answered once the store holds the scenario's edges.
C26_ScenarioAnswers ==
  ScenarioStore =>
    \A p \in Procs :
      /\ Served(p, "getFollowingCount", "alice") => result[p] = CountResult(2)
      /\ Served(p, "getFollowerCount", "carol") => result[p] = CountResult(2)
      /\ Checked(p, Pair("bob", "carol")) => response[p] = IsFollowingResponse(TRUE)
      /\ Checked(p, Pair("carol", "bob")) => response[p] = IsFollowingResponse(FALSE)
      /\ \A o \in CountOps, u \in SeedUsers :
           (Finished(p) /\ op[p] = o /\ req[p] = Pair(u, u)) => Served(p, o, u)

\* C26: edges are directed and an operation on one pair leaves all others
\* untouched: a successful Follow(A,B) or Unfollow(A,B) changes only the (A,B)
\* edge, leaving the users, the reverse edge (B,A) and every other edge as they
\* were; so once alice follows bob and carol and bob follows carol and no other
\* edge exists, FollowingCount(alice) = 2, FollowerCount(carol) = 2,
\* IsFollowing(bob,carol) = true and IsFollowing(carol,bob) = false.
C26_DirectedEdgesAndFrame == [](C26_ScenarioAnswers) /\ [][C26_FrameStep]_vars

\* After the three Follow calls of the scenario, from no edge, FollowerCount
\* of carol has been answered 2.
C26_Witness ==
  \E p \in Procs :
    /\ ScenarioStore
    /\ nextId = 4
    /\ Served(p, "getFollowerCount", "carol")
    /\ result[p].count = 2

\* ------------------------------------------------------------------- C27
\* The data of a listing response has the fields limit and offset.
CarriesPagination(data) == {"limit", "offset"} \subseteq DOMAIN data

\* C27: the data of a successful GET /users/:id/followers or
\* GET /users/:id/following response carries, next to total and items, the
\* limit and offset that were applied to the query: the request's values, or 20
\* and 0 when omitted.
C27_ListingCarriesLimitAndOffset ==
  \A p \in Procs, u \in users, o \in ListOps :
    Served(p, o, u) =>
      /\ CarriesPagination(result[p])
      /\ result[p].limit = pagination[p].limit
      /\ result[p].offset = pagination[p].offset
      /\ query[p] = NoQuery => (result[p].limit = 20 /\ result[p].offset = 0)

\* ------------------------------------------------------------------- C28
\* p and q are the only calls so far still on record, two answered
\* Unfollow(A,B) calls that both began while the same (A,B) edge was in the
\* store: neither can have ended before the other began.
UnfollowRaced(p, q) ==
  /\ p # q
  /\ Finished(p) /\ Finished(q)
  /\ op[p] = "unfollow" /\ op[q] = "unfollow"
  /\ req[p] = req[q]
  /\ edgeAtStart[p] # 0
  /\ edgeAtStart[p] = edgeAtStart[q]
  /\ \A s \in Procs \ {p, q} : op[s] = "none"

\* C28: of two concurrent Unfollow(A,B) calls against a store holding the
\* (A,B) edge, in every interleaving of their lookups and deletes exactly one
\* succeeds, the other fails with FollowNotFound (404), not with Internal
\* (500), and the store ends with no (A,B) edge.
C28_ConcurrentUnfollowOneWins ==
  \A p, q \in Procs :
    UnfollowRaced(p, q) =>
      /\ response[p] = UnfollowedResponse \/ response[q] = UnfollowedResponse
      /\ response[p] = UnfollowedResponse => response[q] = FollowNotFoundResponse
      /\ response[q] = UnfollowedResponse => response[p] = FollowNotFoundResponse
      /\ PairEdges(req[p]) = {}

\* ------------------------------------------------------------------- C29
\* The row with identifier id is in the table.
HasRow(fs, id) == \E f \in fs : f.id = id

\* An Unfollow that is about to delete holds the identifier of a row the store
\* has handed out: every edge created from now on has another identifier.
C29_LookedUpIdIsOld ==
  \A p \in Procs : pc[p] = "delete" => follow[p] \in 1..(nextId - 1)

\* The step of an Unfollow's delete removes no row but the one its lookup
\* returned; when that row is gone, it removes nothing and the Unfollow is not
\* answered with success.
C29_DeleteStep ==
  \A p \in Procs :
    (pc[p] = "delete" /\ pc'[p] = "idle") =>
      /\ \A f \in follows : f.id # follow[p] => f \in follows'
      /\ ~HasRow(follows, follow[p]) =>
           /\ follows' = follows
           /\ ~response'[p].success
           /\ response'[p].status # 200

\* C29: an Unfollow(A,B) never removes an edge created after its own lookup:
\* if between its lookup and its delete the looked-up edge is removed by
\* another Unfollow and (A,B) is followed again (new edge identifier), the
\* stale delete leaves the new edge in place and the stale Unfollow does not
\* report success.
C29_StaleUnfollowKeepsNewEdge == [](C29_LookedUpIdIsOld) /\ [][C29_DeleteStep]_vars

\* An Unfollow that began on the first (A,B) edge has issued its delete and was
\* not answered with success, while another Unfollow of the pair succeeded and
\* a new (A,B) edge, with another identifier, is in the store.
C29_Witness ==
  \E p \in Procs :
    /\ Finished(p)
    /\ op[p] = "unfollow"
    /\ edgeAtStart[p] # 0
    /\ writes[p] = 1
    /\ ~response[p].success
    /\ \E f \in PairEdges(req[p]) : f.id > edgeAtStart[p]

\* ------------------------------------------------------------------- C30
\* The operations routed to a controller.
ControllerOps ==
  {"follow", "unfollow", "isFollowing", "getFollowers", "getFollowing",
   "getFollowerCount", "getFollowingCount", "getAllUsers"}

\* A response has been sent for handler p's request.
BodySent(p) == response[p] # NoResponse

\* While handler p's request runs nothing has been sent; once it has ended
\* one body has been sent: the controller's success body, an error body of
\* errorHandler, or the inline 400 of GET /follows/check.
C30_OneBody ==
  \A p \in Procs :
    /\ Running(p) => ~BodySent(p)
    /\ Finished(p) =>
         /\ op[p] \in ControllerOps
         /\ BodySent(p)
         /\ \/ response[p].success /\ response[p].status \in {200, 201}
            \/ /\ ~response[p].success
               /\ response[p].status >= 400
               /\ response[p].code \in TaxonomyCodes
            \/ op[p] = "isFollowing" /\ response[p] = MissingParamsResponse

\* A body is sent only in the step that ends the request, and what was sent
\* stays as it is until the handler takes its next request.
C30_SendStep ==
  \A p \in Procs :
    /\ (Running(p) /\ response'[p] # response[p]) => pc'[p] = "idle"
    /\ (Finished(p) /\ response'[p] # response[p]) => calls' = calls + 1

\* C30: every request routed to a controller is eventually answered, provided
\* each store call returns or throws, and with exactly one body: the
\* controller's success body, or one error body (of errorHandler when the
\* handler rejects, or the inline 400 of GET /follows/check); no path sends two
\* bodies or leaves the request unanswered.
C30_ExactlyOneResponse ==
  /\ [](C30_OneBody)
  /\ [][C30_SendStep]_vars
  /\ \A p \in Procs : Running(p) ~> (Finished(p) /\ BodySent(p))

\* The delete of an Unfollow threw, the controller's promise rejected, and
\* errorHandler has answered the request.
C30_Witness ==
  \E p \in Procs :
    /\ Finished(p)
    /\ op[p] = "unfollow"
    /\ writes[p] = 1
    /\ StoreFailed(p)
    /\ response[p] = InternalErrorResponse
====
